---- MODULE Spec2Model ----
(***************************************************************************)
(* Model of scripts/backtesting/transaction_fetcher.rs: the per-block      *)
(* fetch-and-filter (fetch_block_transactions), the batched range fetcher  *)
(* (fetch_block_range_transactions_optimized, driving buffer_unordered)    *)
(* and the main flow around it.                                            *)
(*                                                                         *)
(* Strings that the program inspects (addresses, numeric wire fields) are  *)
(* sequences of one-character strings; strings it only carries through     *)
(* are opaque values.  u64 is modelled with the width U64_MAX + 1.         *)
(***************************************************************************)
EXTENDS Integers, Sequences, FiniteSets, TLC

\* ------------------------------------------------------------------------
\* Bounds of the model
\* ------------------------------------------------------------------------

\* Largest value of the (narrowed) unsigned integer type standing for u64.
U64_MAX == 255

\* Largest number of blocks in a range that starts at LowStart.
MaxRange == 4

\* Largest --batch-size drawn.
MaxBatch == 2

\* Largest --max-concurrent drawn.
MaxConc == 2

\* Longest transaction list of a block drawn for the filter on its own.
MaxTxs == 2

\* Longest record sequence drawn for the encoder on its own.
MaxRecords == 3

\* ------------------------------------------------------------------------
\* Strings and numbers
\* ------------------------------------------------------------------------

Min(a, b) == IF a <= b THEN a ELSE b

HexDigits == <<"0", "1", "2", "3", "4", "5", "6", "7",
               "8", "9", "a", "b", "c", "d", "e", "f">>

\* char::to_lowercase on the characters the model uses.
LowerChar(c) ==
    CASE c = "A" -> "a" [] c = "B" -> "b" [] c = "C" -> "c"
      [] c = "D" -> "d" [] c = "E" -> "e" [] c = "F" -> "f"
      [] c = "X" -> "x" [] OTHER -> c

\* str::to_lowercase
to_lowercase(s) == [i \in DOMAIN s |-> LowerChar(s[i])]

\* char::to_digit(16): the value of a hexadecimal digit, -1 when it is none.
to_digit(c) ==
    IF \E d \in 1..16 : HexDigits[d] = LowerChar(c)
    THEN (CHOOSE d \in 1..16 : HexDigits[d] = LowerChar(c)) - 1
    ELSE -1

\* str::starts_with("0x")
starts_with_0x(s) == Len(s) >= 2 /\ s[1] = "0" /\ s[2] = "x"

\* &s[2..]
Skip2(s) == SubSeq(s, 3, Len(s))

\* format!("{:x}", n)
RECURSIVE fmt_hex(_)
fmt_hex(n) ==
    IF n < 16 THEN <<HexDigits[n + 1]>>
    ELSE Append(fmt_hex(n \div 16), HexDigits[(n % 16) + 1])

\* u64::to_string
RECURSIVE to_string(_)
to_string(n) ==
    IF n < 10 THEN <<HexDigits[n + 1]>>
    ELSE Append(to_string(n \div 10), HexDigits[(n % 10) + 1])

\* The digit loop of u64::from_str_radix(_, 16): -1 stands for Err (an
\* invalid digit, or a value that does not fit the integer type).
RECURSIVE radix_digits(_, _)
radix_digits(s, acc) ==
    IF s = <<>> THEN acc
    ELSE IF to_digit(Head(s)) < 0 THEN -1
    ELSE IF acc * 16 + to_digit(Head(s)) > U64_MAX THEN -1
    ELSE radix_digits(Tail(s), acc * 16 + to_digit(Head(s)))

\* u64::from_str_radix(s, 16): empty input is Err, one leading "+" is
\* accepted, a lone sign is Err.
from_str_radix(s) ==
    IF s = <<>> THEN -1
    ELSE IF Head(s) = "+" THEN (IF Len(s) = 1 THEN -1 ELSE radix_digits(Tail(s), 0))
    ELSE radix_digits(s, 0)

\* format!("0x{:x}", block_number)
block_hex(block_number) == <<"0", "x">> \o fmt_hex(block_number)

\* ------------------------------------------------------------------------
\* Wire shapes
\* ------------------------------------------------------------------------

\* Option<String>
None == [is_some |-> FALSE, val |-> <<>>]
Some(s) == [is_some |-> TRUE, val |-> s]

\* struct Transaction.  hash identifies the transaction; from, value, input
\* and gas_price are carried through unread.
Transaction(hash, to, transaction_index) ==
    [hash |-> hash, from |-> <<"0", "x", "f", "0">>, to |-> to,
     value |-> <<"0", "x", "5">>, input |-> <<"0", "x", "d", "a">>,
     transaction_index |-> transaction_index, gas_price |-> <<"0", "x", "9">>]

\* The hash drawn for the transaction at position i of block b.
TxHash(b, i) == block_hex(b) \o fmt_hex(i)

\* struct Block (base_fee_per_gas is never read).
Block(number, transactions) ==
    [number |-> number, transactions |-> transactions]

\* struct FilteredTransaction, built from a matching transaction.
FilteredTransaction(tx, to, block_num_decimal, tx_index_decimal) ==
    [hash |-> tx.hash, from |-> tx.from, to |-> to, value |-> tx.value,
     data |-> tx.input, block_number |-> block_num_decimal,
     transaction_index |-> tx_index_decimal, gas_price |-> tx.gas_price]

\* ------------------------------------------------------------------------
\* fetch_block_transactions: the filter
\* ------------------------------------------------------------------------

\* The conversion of one numeric wire field: a "0x" field is parsed as
\* hexadecimal and printed in decimal, and the parse's Err panics; any
\* other field is copied as it is.
hex_to_decimal(field) ==
    IF starts_with_0x(field)
    THEN IF from_str_radix(Skip2(field)) < 0
         THEN [panic |-> TRUE, val |-> <<>>]
         ELSE [panic |-> FALSE, val |-> to_string(from_str_radix(Skip2(field)))]
    ELSE [panic |-> FALSE, val |-> field]

\* is_match without lowering the recipient: a case-sensitive comparison.
is_match_case_sensitive(tx, target_contract_lower) ==
    tx.to.is_some /\ tx.to.val = target_contract_lower

\* Whether a transaction is sent to the target contract.
is_match(tx, target_contract_lower) ==
    tx.to.is_some /\ to_lowercase(tx.to.val) = target_contract_lower

\* filter_loop putting each record in front of those before it.
RECURSIVE filter_loop_pushing_front(_, _, _, _)
filter_loop_pushing_front(number, txs, target_contract_lower, filtered_transactions) ==
    IF txs = <<>> THEN [kind |-> "Ok", transactions |-> filtered_transactions]
    ELSE IF ~is_match(Head(txs), target_contract_lower)
    THEN filter_loop_pushing_front(number, Tail(txs), target_contract_lower, filtered_transactions)
    ELSE IF hex_to_decimal(number).panic
            \/ hex_to_decimal(Head(txs).transaction_index).panic
    THEN [kind |-> "Panic", transactions |-> <<>>]
    ELSE filter_loop_pushing_front(number, Tail(txs), target_contract_lower,
            <<FilteredTransaction(Head(txs), Head(txs).to.val,
                       hex_to_decimal(number).val,
                       hex_to_decimal(Head(txs).transaction_index).val)>>
                \o filtered_transactions)

\* The loop over block.transactions: the transactions still to visit and
\* the records pushed so far.  A panic ends the loop at once.
RECURSIVE filter_loop(_, _, _, _)
filter_loop(number, txs, target_contract_lower, filtered_transactions) ==
    IF txs = <<>> THEN [kind |-> "Ok", transactions |-> filtered_transactions]
    ELSE IF ~is_match(Head(txs), target_contract_lower)
    THEN filter_loop(number, Tail(txs), target_contract_lower, filtered_transactions)
    ELSE IF hex_to_decimal(number).panic
            \/ hex_to_decimal(Head(txs).transaction_index).panic
    THEN [kind |-> "Panic", transactions |-> <<>>]
    ELSE filter_loop(number, Tail(txs), target_contract_lower,
            Append(filtered_transactions,
                   FilteredTransaction(Head(txs), Head(txs).to.val,
                       hex_to_decimal(number).val,
                       hex_to_decimal(Head(txs).transaction_index).val)))

\* The filtering part of fetch_block_transactions, on a received block.
filter_block(block, target_contract) ==
    filter_loop(block.number, block.transactions,
                to_lowercase(target_contract), <<>>)

\* ------------------------------------------------------------------------
\* Inputs
\* ------------------------------------------------------------------------

TargetMixed == <<"0", "x", "A", "b">>
TargetLower == <<"0", "x", "a", "b">>
OtherAddress == <<"0", "x", "c", "d">>

\* Recipients of a drawn transaction: a contract creation, the target in
\* two letter-casings, an unrelated address.
Recipients == {None, Some(TargetLower), Some(<<"0", "X", "a", "B">>), Some(OtherAddress)}

\* Wire encodings of a transaction index: hexadecimal, decimal, malformed.
IndexFields == {<<"0", "x", "0">>, <<"7">>, <<"0", "x", "z">>}

\* Wire encodings of a block number: hexadecimal, decimal, malformed
\* (a bad digit, no digit, a value too large for the integer type) and
\* hexadecimal under an upper-case prefix.
NumberFields == {block_hex(16), to_string(16), <<"0", "x", "g">>, <<"0", "x">>,
                 block_hex(U64_MAX + 1), <<"0", "X", "1", "0">>}

TxKinds == Recipients \X IndexFields

\* The blocks drawn for the filter on its own.
FilterBlocks ==
    {Block(n, [i \in DOMAIN f |-> Transaction(TxHash(16, i), f[i][1], f[i][2])]) :
        n \in NumberFields, f \in UNION {[1..k -> TxKinds] : k \in 0..MaxTxs}}

\* First block of the ranges that lie far from the top of the integer type.
LowStart == 1

\* The ranges drawn: up to MaxRange blocks from LowStart, and the ranges
\* that touch the last two values of the integer type.
Ranges ==
    {<<LowStart, e>> : e \in LowStart..(LowStart + MaxRange - 1)}
        \cup {<<s, e>> \in {U64_MAX - 1, U64_MAX} \X {U64_MAX - 1, U64_MAX} : s <= e}

\* What the remote block source answers for a block: an error (network
\* failure, timeout, response that does not deserialize) or a block.
ErrResponse == [err |-> TRUE, block |-> Block(<<>>, <<>>)]
OkResponse(block) == [err |-> FALSE, block |-> block]

\* The kinds of answer drawn for a block in a run.
ResponseKinds == {"err", "plain", "matching", "bad_index"}

\* The answer of each kind for block b: an error; a block with a contract
\* creation and an unrelated transfer; a block with two transactions to the
\* target; a block whose second transaction to the target has a malformed
\* index.  (Malformed block numbers are drawn for the filter on its own.)
Response(b, kind) ==
    CASE kind = "err" -> ErrResponse
      [] kind = "plain" ->
            OkResponse(Block(block_hex(b),
                << Transaction(TxHash(b, 0), None, <<"0", "x", "0">>),
                   Transaction(TxHash(b, 1), Some(OtherAddress), <<"0", "x", "1">>) >>))
      [] kind = "matching" ->
            OkResponse(Block(block_hex(b),
                << Transaction(TxHash(b, 0), Some(TargetLower), <<"0", "x", "0">>),
                   Transaction(TxHash(b, 1), Some(TargetMixed), <<"0", "x", "1">>) >>))
      [] kind = "bad_index" ->
            OkResponse(Block(block_hex(b),
                << Transaction(TxHash(b, 0), Some(TargetLower), <<"0", "x", "0">>),
                   Transaction(TxHash(b, 1), Some(TargetLower), <<"0", "x", "z">>) >>))

\* ------------------------------------------------------------------------
\* State
\* ------------------------------------------------------------------------

VARIABLES
    start_block,                \* --start-block
    end_block,                  \* --end-block
    batch_size,                 \* --batch-size
    max_concurrent,             \* --max-concurrent
    target_contract,            \* --target-contract
    output_format,              \* --output-format, drawn where main first uses it
    chain,                      \* the remote source: block number -> kind of answer
    pc,                         \* position of the main flow
    exit_status,                \* process exit status once pc = "exited"
    steps,                      \* batches the step_by iterator has yielded
    batch_start,                \* loop variable of the batch loop
    batch_end,                  \* last block of the current batch
    pending,                    \* blocks of the batch not yet pulled from the stream
    in_progress,                \* buffer_unordered's queue: fetches in flight
    batch_results,              \* outcomes yielded by the stream, in completion order
    all_transactions,           \* the aggregate
    total_blocks_processed,     \* counter
    total_transactions_found,   \* counter
    requests,                   \* block identifiers sent to the remote source, in order
    stdout,                     \* sentinel and payload chunks written
    rpc_block,                  \* a received block handed to the filter on its own
    filter_result               \* what the filter made of rpc_block

args == <<start_block, end_block, batch_size, max_concurrent, target_contract, chain>>
inputs == <<args, output_format>>
counters == <<total_blocks_processed, total_transactions_found>>
stream == <<pending, in_progress, batch_results>>
loop == <<steps, batch_start, batch_end>>
filter_vars == <<rpc_block, filter_result>>
vars == <<inputs, pc, exit_status, loop, stream, all_transactions, counters,
          requests, stdout, filter_vars>>

NoResult == [kind |-> "None", transactions |-> <<>>]

Init ==
    /\ \E r \in Ranges :
         /\ start_block = r[1]
         /\ end_block = r[2]
         /\ chain \in [r[1]..r[2] -> ResponseKinds]
    /\ batch_size \in 1..MaxBatch
    /\ max_concurrent \in 1..MaxConc
    /\ target_contract = TargetMixed
    /\ output_format = "simple"
    /\ pc = "main"
    /\ exit_status = 0
    /\ steps = 0
    /\ batch_start = 0
    /\ batch_end = 0
    /\ pending = <<>>
    /\ in_progress = {}
    /\ batch_results = <<>>
    /\ all_transactions = <<>>
    /\ total_blocks_processed = 0
    /\ total_transactions_found = 0
    /\ requests = <<>>
    /\ stdout = <<>>
    /\ rpc_block = Block(<<>>, <<>>)
    /\ filter_result = NoResult

\* ------------------------------------------------------------------------
\* fetch_block_transactions: the remote call and the filter
\* ------------------------------------------------------------------------

\* The remote source's answer to a request for the block identified by hex.
rpc_response(hex) ==
    Response(from_str_radix(Skip2(hex)), chain[from_str_radix(Skip2(hex))])

\* fetch_block_transactions(client, rpc_url, block_number, target_contract):
\* Err when send or json fails, else the filter's outcome on the block.
fetch_block_transactions(block_number, target) ==
    IF rpc_response(block_hex(block_number)).err
    THEN [kind |-> "Err", transactions |-> <<>>]
    ELSE filter_block(rpc_response(block_hex(block_number)).block, target)

\* ------------------------------------------------------------------------
\* fetch_block_range_transactions_optimized and main
\* ------------------------------------------------------------------------

\* The blocks lo..hi in ascending order (empty when lo > hi).
block_range(lo, hi) == [i \in 1..(hi - lo + 1) |-> lo + i - 1]

\* batch_start + batch_size as u64 - 1 in the integer type.  The addition
\* overflows when the sum exceeds U64_MAX: a build with overflow checks
\* panics there, any other build wraps around.  The subtraction then
\* underflows only from a wrapped sum of 0, and wraps to U64_MAX.
batch_end_sum(start, size, overflow_checks) ==
    LET sum == start + size
        wrapped == sum % (U64_MAX + 1)
    IN  IF overflow_checks /\ sum > U64_MAX
        THEN [panic |-> TRUE, val |-> 0]
        ELSE [panic |-> FALSE, val |-> (wrapped + U64_MAX) % (U64_MAX + 1)]

\* What the step_by iterator yields after `yielded` items.
next_batch_start(yielded) == start_block + yielded * batch_size

\* The free slots test off by one: a future is pulled while the queue
\* already holds max_concurrent of them.
has_free_slot_off_by_one == Cardinality(in_progress) <= max_concurrent

\* The free slots test of buffer_unordered's fill loop.
has_free_slot == Cardinality(in_progress) < max_concurrent

\* The stream taken as finished as soon as its source is exhausted, with
\* fetches still in the queue.
stream_finished_source_only == pending = <<>> /\ has_free_slot

\* The stream has yielded every outcome of the batch: the source iterator is
\* exhausted (seen by the fill loop) and the queue is empty.
stream_finished == pending = <<>> /\ in_progress = {} /\ has_free_slot

\* The collecting loop with a block counted whatever its outcome.
RECURSIVE collect_results_counting_errors(_, _)
collect_results_counting_errors(results, acc) ==
    IF results = <<>> THEN acc
    ELSE collect_results_counting_errors(Tail(results),
            [all |-> acc.all \o Head(results).transactions,
             blocks |-> acc.blocks + 1,
             found |-> acc.found + Len(Head(results).transactions)])

\* collect_results putting each outcome's transactions in front.
RECURSIVE collect_results_prepending(_, _)
collect_results_prepending(results, acc) ==
    IF results = <<>> THEN acc
    ELSE IF Head(results).kind = "Ok"
    THEN collect_results_prepending(Tail(results),
            [all |-> Head(results).transactions \o acc.all,
             blocks |-> acc.blocks + 1,
             found |-> acc.found + Len(Head(results).transactions)])
    ELSE collect_results_prepending(Tail(results), acc)

\* The loop that collects the outcomes of a batch into the aggregate and
\* the counters: [all, blocks, found] after the outcomes in results.
RECURSIVE collect_results(_, _)
collect_results(results, acc) ==
    IF results = <<>> THEN acc
    ELSE IF Head(results).kind = "Ok"
    THEN collect_results(Tail(results),
            [all |-> acc.all \o Head(results).transactions,
             blocks |-> acc.blocks + 1,
             found |-> acc.found + Len(Head(results).transactions)])
    ELSE collect_results(Tail(results), acc)

\* encode_record with the sender and the recipient in each other's place.
encode_record_to_before_from(tx) ==
    <<"|">> \o tx.hash \o <<"|">> \o tx.to \o <<"|">> \o tx.from
        \o <<"|">> \o tx.value \o <<"|">> \o tx.data
        \o <<"|">> \o tx.block_number \o <<"|">> \o tx.transaction_index
        \o <<"|">> \o tx.gas_price

\* The eight fields of one record, each behind a delimiter.
encode_record(tx) ==
    <<"|">> \o tx.hash \o <<"|">> \o tx.from \o <<"|">> \o tx.to
        \o <<"|">> \o tx.value \o <<"|">> \o tx.data
        \o <<"|">> \o tx.block_number \o <<"|">> \o tx.transaction_index
        \o <<"|">> \o tx.gas_price

\* The loop of encode_simple_format over the transactions.
RECURSIVE encode_records(_, _)
encode_records(transactions, result) ==
    IF transactions = <<>> THEN result
    ELSE encode_records(Tail(transactions), result \o encode_record(Head(transactions)))

\* encode_simple_format
encode_simple_format(transactions) ==
    IF transactions = <<>> THEN <<"0">>
    ELSE encode_records(transactions, to_string(Len(transactions)))

\* One object of the json array: the fields of FilteredTransaction under
\* their names, in declaration order.
json_object(tx) ==
    <<"{\"hash\":\"">> \o tx.hash \o <<"\",\"from\":\"">> \o tx.from
        \o <<"\",\"to\":\"">> \o tx.to \o <<"\",\"value\":\"">> \o tx.value
        \o <<"\",\"data\":\"">> \o tx.data
        \o <<"\",\"block_number\":\"">> \o tx.block_number
        \o <<"\",\"transaction_index\":\"">> \o tx.transaction_index
        \o <<"\",\"gas_price\":\"">> \o tx.gas_price \o <<"\"}">>

\* serde_json::to_string of the transactions (it does not fail on them).
RECURSIVE json_objects(_)
json_objects(transactions) ==
    IF transactions = <<>> THEN <<>>
    ELSE IF Len(transactions) = 1 THEN json_object(Head(transactions))
    ELSE json_object(Head(transactions)) \o <<",">> \o json_objects(Tail(transactions))

json_to_string(transactions) == <<"[">> \o json_objects(transactions) \o <<"]">>

\* encode_transactions_for_foundry
encode_transactions_for_foundry(transactions, format) ==
    CASE format = "simple" -> encode_simple_format(transactions)
      [] format = "json" -> json_to_string(transactions)
      [] OTHER -> encode_simple_format(transactions)

\* The format selectors drawn: the two defined ones and an unknown one.
OutputFormats == {"simple", "json", "yaml"}

\* What main writes to standard output, in writing order: a chunk is a
\* sentinel, the payload behind the sentinel prefix, or a progress line,
\* and ends its line when written with println!.
Sentinel(kind, newline) == [kind |-> kind, payload |-> <<>>, newline |-> newline]
Payload(encoded_data) == [kind |-> "DATA", payload |-> encoded_data, newline |-> FALSE]
ProgressLine == [kind |-> "LOG", payload |-> <<>>, newline |-> TRUE]

Exit(status) ==
    /\ pc' = "exited"
    /\ exit_status' = status

\* main up to the first sentinel: the arguments parse, or main returns Err.
MainStart ==
    /\ pc = "main"
    /\ \E parsed \in BOOLEAN :
         IF parsed
         THEN /\ stdout' = Append(stdout, Sentinel("START", TRUE))
              /\ pc' = "build_client"
              /\ UNCHANGED exit_status
         ELSE /\ Exit(1)
              /\ UNCHANGED stdout
    /\ UNCHANGED <<inputs, loop, stream, all_transactions, counters, requests, filter_vars>>

\* The range fetch announces itself; the shared client is built, or its
\* Err is returned through main.
BuildClient ==
    /\ pc = "build_client"
    /\ stdout' = Append(stdout, ProgressLine)
    /\ \E built \in BOOLEAN :
         IF built
         THEN pc' = "batch_loop" /\ UNCHANGED exit_status
         ELSE Exit(1)
    /\ UNCHANGED <<inputs, loop, stream, all_transactions, counters, requests,
                   filter_vars>>

\* The head of the batch loop when the iterator yields a batch start: the
\* batch's blocks become the source of a new stream.
BeginBatch ==
    /\ pc = "batch_loop"
    /\ next_batch_start(steps) <= end_block
    /\ \E overflow_checks \in BOOLEAN :
         LET end == batch_end_sum(next_batch_start(steps), batch_size, overflow_checks)
         IN  IF end.panic
             THEN /\ Exit(101)
                  /\ UNCHANGED <<loop, stream, stdout>>
             ELSE /\ batch_start' = next_batch_start(steps)
                  /\ batch_end' = Min(end.val, end_block)
                  /\ steps' = steps + 1
                  /\ pending' = block_range(next_batch_start(steps), Min(end.val, end_block))
                  /\ pc' = "stream"
                  /\ stdout' = Append(stdout, ProgressLine)
                  /\ UNCHANGED <<exit_status, in_progress, batch_results>>
    /\ UNCHANGED <<inputs, all_transactions, counters, requests, filter_vars>>

\* The fill loop of buffer_unordered pulls the next future from the source
\* and starts it: its request goes out.
Dispatch ==
    /\ pc = "stream"
    /\ pending # <<>>
    /\ has_free_slot
    /\ in_progress' = in_progress \cup {Head(pending)}
    /\ pending' = Tail(pending)
    /\ requests' = Append(requests, block_hex(Head(pending)))
    /\ UNCHANGED <<inputs, pc, exit_status, loop, batch_results, all_transactions,
                   counters, stdout, filter_vars>>

\* Complete with the finishing fetch task bumping the blocks counter itself.
Complete_counting_in_task(block_num) ==
    /\ pc = "stream"
    /\ block_num \in in_progress
    /\ (pending = <<>> \/ ~has_free_slot)
    /\ LET outcome == fetch_block_transactions(block_num, target_contract)
       IN  IF outcome.kind = "Panic"
           THEN /\ Exit(101)
                /\ in_progress' = {}
                /\ UNCHANGED <<batch_results, stdout>>
           ELSE /\ in_progress' = in_progress \ {block_num}
                /\ batch_results' = Append(batch_results,
                       [kind |-> outcome.kind, block_num |-> block_num,
                        transactions |-> outcome.transactions])
                /\ stdout' = IF outcome.kind = "Ok" THEN Append(stdout, ProgressLine)
                             ELSE stdout
                /\ UNCHANGED <<pc, exit_status>>
    /\ total_blocks_processed' = total_blocks_processed + 1
    /\ UNCHANGED <<inputs, loop, pending, all_transactions, total_transactions_found,
                   requests, filter_vars>>

\* A fetch in flight finishes (polled once the fill loop has stopped): its
\* outcome is yielded by the stream, a success behind its progress line (a
\* failure is reported on standard error), or the filter's panic unwinds
\* main.
Complete(block_num) ==
    /\ pc = "stream"
    /\ block_num \in in_progress
    /\ (pending = <<>> \/ ~has_free_slot)
    /\ LET outcome == fetch_block_transactions(block_num, target_contract)
       IN  IF outcome.kind = "Panic"
           THEN /\ Exit(101)
                /\ in_progress' = {}
                /\ UNCHANGED <<batch_results, stdout>>
           ELSE /\ in_progress' = in_progress \ {block_num}
                /\ batch_results' = Append(batch_results,
                       [kind |-> outcome.kind, block_num |-> block_num,
                        transactions |-> outcome.transactions])
                /\ stdout' = IF outcome.kind = "Ok" THEN Append(stdout, ProgressLine)
                             ELSE stdout
                /\ UNCHANGED <<pc, exit_status>>
    /\ UNCHANGED <<inputs, loop, pending, all_transactions, counters, requests,
                   filter_vars>>

\* The stream ends and the batch's outcomes are collected.
CollectBatch ==
    /\ pc = "stream"
    /\ stream_finished
    /\ LET acc == collect_results(batch_results,
                      [all |-> all_transactions, blocks |-> total_blocks_processed,
                       found |-> total_transactions_found])
       IN  /\ all_transactions' = acc.all
           /\ total_blocks_processed' = acc.blocks
           /\ total_transactions_found' = acc.found
    /\ batch_results' = <<>>
    /\ pc' = "batch_loop"
    /\ UNCHANGED <<inputs, exit_status, loop, pending, in_progress, requests,
                   stdout, filter_vars>>

\* The iterator is exhausted: the three summary lines are printed and
\* Ok(all_transactions) returned to main.
FinishRange ==
    /\ pc = "batch_loop"
    /\ next_batch_start(steps) > end_block
    /\ stdout' = stdout \o <<ProgressLine, ProgressLine, ProgressLine>>
    /\ pc' = "encode"
    /\ UNCHANGED <<inputs, exit_status, loop, stream, all_transactions, counters,
                   requests, filter_vars>>

\* main encodes the transactions in the format selected, writes the
\* payload and the closing sentinel and returns Ok(()).
Emit ==
    /\ pc = "encode"
    /\ \E format \in OutputFormats :
         /\ output_format' = format
         /\ stdout' = stdout \o
               << Payload(encode_transactions_for_foundry(all_transactions, format)),
                  Sentinel("END", FALSE) >>
    /\ Exit(0)
    /\ UNCHANGED <<args, loop, stream, all_transactions, counters, requests,
                   filter_vars>>

Next ==
    \/ MainStart
    \/ BuildClient
    \/ BeginBatch
    \/ Dispatch
    \/ \E block_num \in in_progress : Complete(block_num)
    \/ CollectBatch
    \/ FinishRange
    \/ Emit

Spec == Init /\ [][Next]_vars

\* The main flow is always scheduled, and every request ends within the
\* client's timeout: a step that can be taken is eventually taken.
FairSpec == Spec /\ WF_vars(Next)

\* ------------------------------------------------------------------------
\* The filter on its own: a block and a target are drawn and the filter
\* is applied once.
\* ------------------------------------------------------------------------

InitFilter ==
    /\ rpc_block \in FilterBlocks
    /\ target_contract \in {TargetMixed, OtherAddress}
    /\ filter_result = NoResult
    /\ start_block = 16
    /\ end_block = 16
    /\ batch_size = 1
    /\ max_concurrent = 1
    /\ chain = [b \in {16} |-> "plain"]
    /\ output_format = "simple"
    /\ pc = "filter"
    /\ exit_status = 0
    /\ steps = 0
    /\ batch_start = 0
    /\ batch_end = 0
    /\ pending = <<>>
    /\ in_progress = {}
    /\ batch_results = <<>>
    /\ all_transactions = <<>>
    /\ total_blocks_processed = 0
    /\ total_transactions_found = 0
    /\ requests = <<>>
    /\ stdout = <<>>

ApplyFilter ==
    /\ pc = "filter"
    /\ filter_result = NoResult
    /\ filter_result' = filter_block(rpc_block, target_contract)
    /\ UNCHANGED <<inputs, pc, exit_status, loop, stream, all_transactions,
                   counters, requests, stdout, rpc_block>>

NextFilter == ApplyFilter

SpecFilter == InitFilter /\ [][NextFilter]_vars

\* ------------------------------------------------------------------------
\* Vocabulary of the properties
\* ------------------------------------------------------------------------

\* Letters that differ only in case.
CasePairs == {<<"a", "A">>, <<"b", "B">>, <<"c", "C">>, <<"d", "D">>,
              <<"e", "E">>, <<"f", "F">>, <<"x", "X">>}

SameLetter(c, d) == c = d \/ <<c, d>> \in CasePairs \/ <<d, c>> \in CasePairs

\* Two addresses are equal ignoring letter case.
EqualIgnoringCase(a, b) ==
    Len(a) = Len(b) /\ \A i \in 1..Len(a) : SameLetter(a[i], b[i])

\* A transaction is addressed to the target.
AddressedTo(tx, target) == tx.to.is_some /\ EqualIgnoringCase(tx.to.val, target)

\* The transactions of a block addressed to the target, in block order.
Addressed(block, target) ==
    SelectSeq(block.transactions, LAMBDA tx : AddressedTo(tx, target))

\* A record is the FilteredTransaction of a transaction: every field other
\* than the two numeric ones is carried over.
RecordOf(rec, tx) ==
    /\ rec.hash = tx.hash
    /\ rec.from = tx.from
    /\ rec.to = tx.to.val
    /\ rec.value = tx.value
    /\ rec.data = tx.input
    /\ rec.gas_price = tx.gas_price

\* The filter has been applied and has returned.
FilterReturned == filter_result.kind = "Ok"

\* C10 -- Filter correctness: whenever the filter returns, its output holds
\* exactly one record for each transaction of the block whose `to` is
\* present and equal to the target ignoring letter case, in block order,
\* and nothing else (so no transaction without `to`); and a block with no
\* transaction addressed to the target always yields the empty sequence.
C10_FilterCorrect ==
    LET wanted == Addressed(rpc_block, target_contract)
        out == filter_result.transactions
    IN  /\ FilterReturned =>
              /\ Len(out) = Len(wanted)
              /\ \A i \in 1..Len(out) : RecordOf(out[i], wanted[i])
        /\ (filter_result # NoResult /\ wanted = <<>>) =>
              (FilterReturned /\ out = <<>>)

\* C10 witness: the filter returned a record for a transaction whose `to`
\* is spelled in another letter case than the target, and left out a
\* contract creation of the same block.
C10_Witness ==
    /\ FilterReturned
    /\ Len(filter_result.transactions) = 1
    /\ filter_result.transactions[1].to # target_contract
    /\ \E i \in 1..Len(rpc_block.transactions) : ~rpc_block.transactions[i].to.is_some

\* ------------------------------------------------------------------------
\* Properties of a run
\* ------------------------------------------------------------------------

\* The blocks of the range.
RangeBlocks == start_block..end_block

\* The batch a block of the range belongs to (0, 1, ...).
BatchOf(b) == (b - start_block) \div batch_size

\* The number of requests sent for block b.
RequestCount(b) == Cardinality({i \in 1..Len(requests) : requests[i] = block_hex(b)})

\* Block b has been dispatched to the remote source.
Dispatched(b) == RequestCount(b) >= 1

\* The fetch of block b has been dispatched and has resolved.
Resolved(b) == Dispatched(b) /\ b \notin in_progress

\* C1 -- Concurrency bound: in every state of a run the number of fetches
\* dispatched and not yet resolved is at most min(batchSize, maxConcurrent),
\* whichever of the two is smaller, in every batch of the run.
C1_ConcurrencyBound ==
    /\ Cardinality(in_progress) <= Min(batch_size, max_concurrent)
    /\ in_progress \subseteq {b \in RangeBlocks : Dispatched(b)}

\* C1 witness: a cap of at least two is reached in a batch after the first.
C1_Witness ==
    /\ steps >= 2
    /\ batch_size >= max_concurrent
    /\ max_concurrent >= 2
    /\ Cardinality(in_progress) = max_concurrent

\* C2 -- Batch barrier: whenever a fetch of some batch is in flight, every
\* block of every earlier batch has been dispatched and has resolved; so
\* all fetches in flight belong to one batch.
C2_BatchBarrier ==
    /\ \A b \in in_progress : \A c \in RangeBlocks :
          BatchOf(c) < BatchOf(b) => Resolved(c)
    /\ \A b, c \in in_progress : BatchOf(b) = BatchOf(c)

\* C2 witness: two fetches of the second batch are in flight, after a first
\* batch of more than one block.
C2_Witness ==
    /\ Cardinality(in_progress) >= 2
    /\ batch_size >= 2
    /\ \A b \in in_progress : BatchOf(b) = 1

\* The run has ended with exit status zero.
Completed == pc = "exited" /\ exit_status = 0

\* The range fetcher has returned its aggregate.
Returned == pc = "encode" \/ Completed

\* The run has ended with a non-zero exit status.
Failed == pc = "exited" /\ exit_status # 0

\* The remote source answers the request for block b with a block.
FetchSucceeds(b) == ~Response(b, chain[b]).err

\* The block the remote source answers with has a malformed numeric field
\* on a transaction addressed to the target.
Malformed(b) == chain[b] = "bad_index"

\* The blocks dispatched whose fetch succeeded, and those whose fetch failed.
SucceededBlocks == {b \in RangeBlocks : Dispatched(b) /\ FetchSucceeds(b)}
FailedBlocks == {b \in RangeBlocks : Dispatched(b) /\ ~FetchSucceeds(b)}

\* The hashes of the transactions of block b addressed to the target.
MatchesOf(b) ==
    LET txs == Addressed(Response(b, chain[b]).block, target_contract)
    IN  {txs[i].hash : i \in 1..Len(txs)}

\* The aggregate holds exactly the matches of the blocks in bs, each once.
AggregateIs(bs) ==
    /\ {all_transactions[i].hash : i \in 1..Len(all_transactions)}
          = UNION {MatchesOf(b) : b \in bs}
    /\ \A i, j \in 1..Len(all_transactions) :
          all_transactions[i].hash = all_transactions[j].hash => i = j

\* The value of a decimal string, -1 when it is not one.
RECURSIVE DecValue(_)
DecValue(str) ==
    IF str = <<>> THEN -1
    ELSE LET d == to_digit(str[Len(str)])
         IN  IF d < 0 \/ d > 9 THEN -1
             ELSE IF Len(str) = 1 THEN d
             ELSE IF DecValue(SubSeq(str, 1, Len(str) - 1)) < 0 THEN -1
             ELSE DecValue(SubSeq(str, 1, Len(str) - 1)) * 10 + d

\* Every block of the range has been dispatched exactly once, in ascending
\* order, and nothing else has.
EveryBlockDispatchedOnce ==
    requests = [i \in 1..(end_block - start_block + 1) |-> block_hex(start_block + i - 1)]

\* C3 -- Per-block failure isolation: once fetching has begun the run does
\* not crash whichever blocks fail; it goes through every batch, and its
\* final aggregate holds exactly the matching transactions of the blocks
\* whose fetch succeeded.
C3_FailureIsolation ==
    /\ (pc = "exited" /\ requests # <<>>) => exit_status = 0
    /\ Completed =>
          /\ \A b \in RangeBlocks : Dispatched(b)
          /\ AggregateIs({b \in RangeBlocks : FetchSucceeds(b)})

\* C4 -- Result ordering: in the returned sequence, for any two positions
\* i < j, block(i) < block(j), or block(i) = block(j) and index(i) < index(j).
C4_ResultOrdered ==
    Returned =>
        \A i, j \in 1..Len(all_transactions) :
            i < j =>
                LET bi == DecValue(all_transactions[i].block_number)
                    bj == DecValue(all_transactions[j].block_number)
                    xi == DecValue(all_transactions[i].transaction_index)
                    xj == DecValue(all_transactions[j].transaction_index)
                IN  bi < bj \/ (bi = bj /\ xi < xj)

\* C5 -- Fatal versus non-fatal errors: a run that ends with a non-zero
\* exit status has dispatched no fetch; once a fetch has been dispatched
\* the process exits with status zero.
C5_FatalOnlyBeforeFetch ==
    Failed => requests = <<>>

\* C6 -- Malformed numeric field is a per-block failure: when the fetch of
\* a block with a malformed field on a transaction to the target has
\* resolved, the run has not crashed, the block's outcome is a failure and
\* it has contributed no transaction.
C6_MalformedIsPerBlockFailure ==
    \A b \in RangeBlocks :
        (Malformed(b) /\ Resolved(b)) =>
            /\ ~Failed
            /\ \A i \in 1..Len(batch_results) :
                  batch_results[i].block_num = b => batch_results[i].kind = "Err"
            /\ \A i \in 1..Len(all_transactions) :
                  all_transactions[i].hash \notin MatchesOf(b)

\* C7 -- Partition and exactly-once dispatch: batch k is start + k*size ..
\* min(start + (k+1)*size - 1, end), batches are taken in ascending k, no
\* block is dispatched twice or from outside the range, and a run that has
\* begun fetching ends with every block of the range dispatched once.
C7_PartitionExactlyOnce ==
    /\ pc = "stream" =>
          /\ batch_start = start_block + (steps - 1) * batch_size
          /\ batch_end = Min(batch_start + batch_size - 1, end_block)
    /\ \A i \in 1..Len(requests) :
          /\ requests[i] \in {block_hex(b) : b \in RangeBlocks}
          /\ \A j \in 1..Len(requests) : requests[i] = requests[j] => i = j
    /\ Returned => EveryBlockDispatchedOnce

\* C8 -- Termination: under fair scheduling, with every dispatched fetch
\* resolving, a run that has entered the batch loop reaches completion with
\* every block of every batch dispatched.
C8_Termination ==
    (pc = "batch_loop") ~> (Completed /\ EveryBlockDispatchedOnce)

\* The counters the run maintains.
RunCounters == {total_blocks_processed, total_transactions_found}

DecimalDigits == {"0", "1", "2", "3", "4", "5", "6", "7", "8", "9"}

\* A canonical decimal string: digits only, no leading zero but for "0".
IsDecimalString(str) ==
    /\ str # <<>>
    /\ \A i \in 1..Len(str) : str[i] \in DecimalDigits
    /\ (Len(str) > 1 => str[1] # "0")

\* The value of a string of hexadecimal digits, by positional weight.
HexValue(digits) ==
    LET weight[i \in 0..Len(digits)] == IF i = 0 THEN 1 ELSE 16 * weight[i - 1]
        sum[i \in 0..Len(digits)] ==
            IF i = 0 THEN 0
            ELSE sum[i - 1] + to_digit(digits[i]) * weight[Len(digits) - i]
    IN  sum[Len(digits)]

\* The numeric value a wire field carries: a prefixed field is hexadecimal,
\* any other is decimal.
WireValue(field) ==
    IF Len(field) >= 2 /\ field[1] = "0" /\ field[2] \in {"x", "X"}
    THEN HexValue(SubSeq(field, 3, Len(field)))
    ELSE DecValue(field)

\* C11 -- Numeric normalization: in every record the filter returns,
\* block_number and transaction_index are decimal strings, and they spell
\* the value carried by the block's number and by the transaction's index
\* on the wire (0x10 gives "16", 0x0 gives "0").
C11_NumericNormalized ==
    LET wanted == Addressed(rpc_block, target_contract)
        out == filter_result.transactions
    IN  FilterReturned =>
            \A i \in 1..Len(out) :
                /\ IsDecimalString(out[i].block_number)
                /\ IsDecimalString(out[i].transaction_index)
                /\ DecValue(out[i].block_number) = WireValue(rpc_block.number)
                /\ DecValue(out[i].transaction_index)
                      = WireValue(wanted[i].transaction_index)

\* The same for the blocks whose number has the lower-case prefix or is
\* decimal: there the conversion is exact.
NormalizedUnderLowerPrefix ==
    (starts_with_0x(rpc_block.number) \/ IsDecimalString(rpc_block.number))
        => C11_NumericNormalized

\* ------------------------------------------------------------------------
\* The encoder on its own: a record sequence is drawn and main encodes and
\* writes it in a drawn format.
\* ------------------------------------------------------------------------

\* The records drawn: two transactions of block 16, and one of block 17
\* with an empty data field.
EncoderRecords ==
    { FilteredTransaction(Transaction(TxHash(16, 0), None, <<>>), TargetLower,
                          to_string(16), to_string(0)),
      FilteredTransaction(Transaction(TxHash(16, 1), None, <<>>), TargetMixed,
                          to_string(16), to_string(1)),
      [FilteredTransaction(Transaction(TxHash(17, 0), None, <<>>), TargetLower,
                           to_string(17), to_string(0)) EXCEPT !.data = <<>>] }

InitEncode ==
    /\ all_transactions \in UNION {[1..n -> EncoderRecords] : n \in 0..MaxRecords}
    /\ pc = "encode"
    /\ output_format = "simple"
    /\ target_contract = TargetLower
    /\ start_block = 16
    /\ end_block = 17
    /\ batch_size = 1
    /\ max_concurrent = 1
    /\ chain = [b \in {16, 17} |-> "matching"]
    /\ exit_status = 0
    /\ steps = 2
    /\ batch_start = 17
    /\ batch_end = 17
    /\ pending = <<>>
    /\ in_progress = {}
    /\ batch_results = <<>>
    /\ total_blocks_processed = 2
    /\ total_transactions_found = Len(all_transactions)
    /\ requests = <<block_hex(16), block_hex(17)>>
    /\ stdout = <<Sentinel("START", TRUE), ProgressLine, ProgressLine,
                   ProgressLine, ProgressLine, ProgressLine, ProgressLine,
                   ProgressLine, ProgressLine>>
    /\ rpc_block = Block(<<>>, <<>>)
    /\ filter_result = NoResult

SpecEncode == InitEncode /\ [][Emit]_vars

\* The payload main has written, <<>> before it has.
WrittenPayload ==
    LET data == SelectSeq(stdout, LAMBDA chunk : chunk.kind = "DATA")
    IN  IF data = <<>> THEN <<>> ELSE data[1].payload

\* The pieces of a payload between its delimiters: piece k runs from
\* behind the (k-1)-th `|` to before the k-th, the ends of the payload
\* standing for the 0-th and the last.
Pieces(payload) ==
    LET bars == {i \in 1..Len(payload) : payload[i] = "|"}
        bar(k) == IF k = 0 THEN 0
                  ELSE IF k = Cardinality(bars) + 1 THEN Len(payload) + 1
                  ELSE CHOOSE i \in bars : Cardinality({j \in bars : j < i}) = k - 1
    IN  [k \in 1..(Cardinality(bars) + 1) |->
            SubSeq(payload, bar(k - 1) + 1, bar(k) - 1)]

\* The eight fields of a record in the order of the payload grammar.
FieldsOf(rec) ==
    << rec.hash, rec.from, rec.to, rec.value, rec.data, rec.block_number,
       rec.transaction_index, rec.gas_price >>

\* A payload has the simple shape for a record sequence: the count, then
\* the eight fields of each record in sequence order, each behind a `|`.
SimpleShape(payload, records) ==
    LET pieces == Pieces(payload)
    IN  /\ Len(pieces) = 1 + 8 * Len(records)
        /\ IsDecimalString(pieces[1])
        /\ DecValue(pieces[1]) = Len(records)
        /\ \A k \in 1..Len(records) : \A f \in 1..8 :
              pieces[1 + 8 * (k - 1) + f] = FieldsOf(records[k])[f]

\* C12 -- Simple encoding shape: the payload written for the empty
\* sequence in simple format is exactly "0"; for N >= 1 records it is the
\* integer N followed by the N records in input order, each introduced by
\* `|` with its eight fields separated by `|`; and an unrecognized format
\* selector gives the payload of "simple".
C12_SimpleShape ==
    (Completed /\ output_format # "json") =>
        /\ SimpleShape(WrittenPayload, all_transactions)
        /\ all_transactions = <<>> => WrittenPayload = <<"0">>

\* C12 witness: three records, one with an empty field, written under an
\* unrecognized selector.
C12_Witness ==
    /\ Completed
    /\ output_format = "yaml"
    /\ Len(all_transactions) = 3
    /\ \E k \in 1..3 : all_transactions[k].data = <<>>
    /\ all_transactions[1] # all_transactions[2]

\* ------------------------------------------------------------------------
\* Output framing.
\* ------------------------------------------------------------------------

\* Chunk i of standard output is a line by itself: it starts at the start
\* of a line, and the line ends with it (by its newline, or because the
\* output ends there).
WholeLine(i) ==
    /\ i = 1 \/ stdout[i - 1].newline
    /\ stdout[i].newline \/ i = Len(stdout)

\* The positions where a chunk of a kind was written, and those where it
\* is a line by itself.
Written(kind) == {i \in 1..Len(stdout) : stdout[i].kind = kind}
LinesOf(kind) == {i \in Written(kind) : WholeLine(i)}

\* The three framing lines are in the output, each once and in order.
Framed ==
    /\ \A kind \in {"START", "DATA", "END"} :
          Cardinality(Written(kind)) = 1 /\ LinesOf(kind) = Written(kind)
    /\ \A i \in Written("START") : \A j \in Written("DATA") : \A k \in Written("END") :
          i < j /\ j < k

\* Every batch of the range has completed: the loop is exhausted and
\* nothing of a batch is waiting or in flight.
BatchesDone ==
    /\ pc \in {"encode", "exited"}
    /\ pending = <<>>
    /\ in_progress = {}
    /\ batch_results = <<>>

\* C13 -- Output framing: on every run that exits with status zero,
\* standard output contains the line TRANSACTION_DATA:START, then the
\* payload line, then the line TRANSACTION_DATA:END, each once and in that
\* order, the payload written only after every batch has completed; END is
\* never written without a payload before it; and a run that has written
\* START eventually writes END.
C13_OutputFraming ==
    /\ [](Completed => Framed)
    /\ [](Written("DATA") # {} => BatchesDone)
    /\ [](\A k \in Written("END") : \E j \in Written("DATA") : j < k)
    /\ (Written("START") # {}) ~> (Written("END") # {})

\* What does hold of the sentinels: a completed run has written START as a
\* line, and behind the progress lines the payload and END once each, in
\* that order, on one unterminated line; the payload is written only after
\* every batch has completed, and END only behind a payload.
SentinelsInOrder ==
    /\ Completed =>
          /\ \A kind \in {"START", "DATA", "END"} : Cardinality(Written(kind)) = 1
          /\ LinesOf("START") = Written("START")
          /\ LinesOf("DATA") = {} /\ LinesOf("END") = {}
          /\ \A j \in Written("DATA") :
                /\ j + 1 \in Written("END")
                /\ j + 1 = Len(stdout)
                /\ \A i \in Written("START") : i < j
    /\ Written("DATA") # {} => BatchesDone
    /\ \A k \in Written("END") : \E j \in Written("DATA") : j < k

\* ------------------------------------------------------------------------
\* The aggregate across completion orders.
\* ------------------------------------------------------------------------

\* The block a request asked for.
BlockOfRequest(hex) == CHOOSE b \in RangeBlocks : block_hex(b) = hex

\* The aggregate of the run in which every fetch resolves in the order the
\* fetches were dispatched (a run the stream admits: the oldest fetch in
\* flight may always be the one to finish): the transactions returned for
\* the requests from the i-th on, in request order.
RECURSIVE InDispatchOrder(_)
InDispatchOrder(i) ==
    IF i > Len(requests) THEN <<>>
    ELSE LET outcome == fetch_block_transactions(BlockOfRequest(requests[i]),
                                                 target_contract)
         IN  (IF outcome.kind = "Ok" THEN outcome.transactions ELSE <<>>)
                 \o InDispatchOrder(i + 1)

\* C14 -- Determinism of the aggregate: for fixed inputs and a fixed mapping
\* from block number to remote outcome the returned sequence and the
\* counters are the same for every interleaving of fetch completions; that
\* is, every run returns what the run resolving its fetches in dispatch
\* order returns.
C14_AggregateDeterministic ==
    Returned =>
        /\ all_transactions = InDispatchOrder(1)
        /\ total_blocks_processed = Cardinality(SucceededBlocks)
        /\ total_transactions_found = Len(InDispatchOrder(1))

\* What is the same for every interleaving: the counters, and the set of
\* transactions returned.
CountersDeterministic ==
    Returned =>
        /\ total_blocks_processed = Cardinality(SucceededBlocks)
        /\ total_transactions_found = Len(InDispatchOrder(1))
        /\ {all_transactions[i] : i \in 1..Len(all_transactions)}
              = {InDispatchOrder(1)[i] : i \in 1..Len(InDispatchOrder(1))}

\* ------------------------------------------------------------------------
\* Ownership of the aggregate.
\* ------------------------------------------------------------------------

\* A step writes the result sequence or a counter.
AggregateWritten == all_transactions' # all_transactions \/ counters' # counters

\* A step of a fetch task: its request goes out, or it resolves.
FetchTaskStep == requests' # requests \/ in_progress' # in_progress

\* C15 -- Single-owner aggregation: the result sequence and the counters
\* are written only by the collection step of a batch, which runs only when
\* no fetch is in flight and none is waiting to be dispatched; while a
\* fetch is dispatched and unresolved they are unchanged, and a dispatch or
\* completion step of a fetch task never writes them.
C15_SingleOwner ==
    [][ /\ AggregateWritten =>
              /\ pc = "stream" /\ pc' = "batch_loop"
              /\ in_progress = {} /\ pending = <<>>
              /\ batch_results' = <<>>
        /\ in_progress # {} => ~AggregateWritten
        /\ FetchTaskStep => ~AggregateWritten ]_vars

\* C15 witness: a fetch is in flight while another of its batch has
\* resolved with transactions and an earlier batch has been collected.
C15_Witness ==
    /\ in_progress # {}
    /\ \E i \in 1..Len(batch_results) : batch_results[i].transactions # <<>>
    /\ all_transactions # <<>>
    /\ total_blocks_processed >= 1

\* ------------------------------------------------------------------------
\* Order across batches and within a block.
\* ------------------------------------------------------------------------

\* The block the record at a position of the result came from.
BlockAt(i) == DecValue(all_transactions[i].block_number)

\* The result is the result of the step before, possibly with records
\* appended.
OnlyAppended ==
    /\ Len(all_transactions') >= Len(all_transactions)
    /\ SubSeq(all_transactions', 1, Len(all_transactions)) = all_transactions

\* C16 -- Cross-batch ordering: in the result, every transaction from a
\* block of batch i precedes every transaction from a block of batch j
\* whenever i < j, whatever the completion order of the fetches; and the
\* result only grows by appending, so what was accumulated after a batch is
\* never reordered or truncated by later batches.
C16_CrossBatchOrder ==
    /\ [](\A p, q \in 1..Len(all_transactions) :
              p < q => BatchOf(BlockAt(p)) <= BatchOf(BlockAt(q)))
    /\ [][OnlyAppended]_vars

\* C16 witness: the result returned holds transactions of two batches, the
\* first batch's in other than block order.
C16_Witness ==
    /\ Returned
    /\ \E p, q \in 1..Len(all_transactions) :
          p < q /\ BatchOf(BlockAt(p)) = 0 /\ BatchOf(BlockAt(q)) = 0
                /\ BlockAt(p) > BlockAt(q)
    /\ \E q \in 1..Len(all_transactions) : BatchOf(BlockAt(q)) = 1

\* The positions of the result holding a record of block b.
SegmentOf(b) == {p \in 1..Len(all_transactions) : BlockAt(p) = b}

\* The hashes of a sequence of transactions or records, in sequence order.
HashesOf(txs) == [i \in 1..Len(txs) |-> txs[i].hash]

\* C17 -- Per-block contiguity: in the result, the transactions contributed
\* by one successfully fetched block occupy a contiguous segment and keep
\* the order they had in the block's transaction list; transactions of two
\* blocks are never interleaved, whatever the completion order.
C17_BlockContiguous ==
    \A b \in RangeBlocks :
        SegmentOf(b) # {} =>
            /\ \A p, q \in SegmentOf(b) : \A r \in p..q : r \in SegmentOf(b)
            /\ HashesOf(SelectSeq(all_transactions,
                            LAMBDA rec : DecValue(rec.block_number) = b))
                  = HashesOf(Addressed(Response(b, chain[b]).block, target_contract))

\* C17 witness: the result returned holds two transactions of each of two
\* blocks of one batch, the later block's first.
C17_Witness ==
    /\ Returned
    /\ \E b, c \in RangeBlocks :
          /\ b < c /\ BatchOf(b) = BatchOf(c)
          /\ Cardinality(SegmentOf(b)) >= 2 /\ Cardinality(SegmentOf(c)) >= 2
          /\ \A p \in SegmentOf(b) : \A q \in SegmentOf(c) : q < p

\* ------------------------------------------------------------------------
\* Batch-bound arithmetic.
\* ------------------------------------------------------------------------

\* C18 -- Batch-bound arithmetic: for every start_block <= end_block of the
\* unsigned range, end_block at or near the maximum included, and every
\* batch size >= 1, the batch end is batch_start + batch_size - 1 capped at
\* end_block, with batch_start <= batch_end <= end_block and no overflow or
\* wrap-around: no batch is empty, the computation never panics (a run
\* ends with the panic status only on a malformed block it fetched), and a
\* completed run has skipped no block of the range.
C18_BatchBoundsExact ==
    /\ steps >= 1 =>
          /\ batch_start <= batch_end
          /\ batch_end <= end_block
          /\ batch_end = Min(batch_start + batch_size - 1, end_block)
    /\ (pc = "exited" /\ exit_status = 101) =>
          \E b \in RangeBlocks : Dispatched(b) /\ Malformed(b)
    /\ Completed => \A b \in RangeBlocks : Dispatched(b)

\* Where the sum stays within the unsigned range the bounds are as claimed.
BatchBoundsWithoutOverflow ==
    (steps >= 1 /\ batch_start + batch_size <= U64_MAX) =>
        /\ batch_start <= batch_end
        /\ batch_end = Min(batch_start + batch_size - 1, end_block)

====
